---- MODULE Spec2Model ----
(***************************************************************************)
(* Model of src/main.py: the video -> audio -> chunks -> transcript        *)
(* pipeline.  video_to_transcript is the coordinator thread; every         *)
(* transcribe_chunk invocation runs on a thread of the ThreadPoolExecutor  *)
(* and is cut at its blocking points (export, reading the file back, the   *)
(* recognition call followed by the finally clause).                       *)
(*                                                                         *)
(* Times: the source keeps start/end as float seconds, i / 1000.0.  The    *)
(* model keeps the same value as the integer number of milliseconds (the   *)
(* exact numerator over MsPerSecond) and converts when a line is           *)
(* formatted (Fmt2).                                                       *)
(***************************************************************************)
EXTENDS Integers, Sequences, FiniteSets, TLC

VARIABLES
    phase,            \* position of video_to_transcript
    video_ms,         \* input: duration of the video's audio track, ms
    chunk_length_ms,  \* split_audio's chunk_length_ms argument
    audio,            \* len(audio) of the extracted WAV file, or NoAudio
    chunks,           \* the list split_audio returned
    coord,            \* position inside audio_chunks_to_text
    wstate,           \* per submitted future: position of its transcribe_chunk
    audio_data,       \* per future: what recognizer.record read from its file
    heard,            \* per future: what recognize_google answered
    result,           \* per future: the value returned or the exception raised
    files,            \* the chunk files that exist: path -> content
    collected,        \* futures as_completed has already yielded
    transcript,       \* the transcript list of audio_chunks_to_text
    out_file          \* the lines of the output file, or NoFile

vars == <<phase, video_ms, chunk_length_ms, audio, chunks, coord, wstate,
          audio_data, heard, result, files, collected, transcript, out_file>>

workerVars == <<wstate, audio_data, heard, result, files>>

(***************************************************************************)
(* Program constants and bounds                                            *)
(***************************************************************************)
MsPerSecond == 1000
DefaultChunkLengthMs == 30000

\* The durations tried by the pipeline are 0, 1/2, 1, 3/2, ... chunk lengths.
MaxHalfChunks == 6
\* max_workers of the ThreadPoolExecutor.
PoolSize == 2
\* The durations tried under fair scheduling (LiveSpec), in half chunks.
MaxLiveHalfChunks == 5
\* Inputs of split_audio tried on its own (SplitSpec), in ms.
MaxSplitLen == 16
MaxSplitChunk == 5

NoAudio == -1
NoFile == <<[head |-> <<"nofile">>, payload |-> <<>>]>>
NoLine == [head |-> <<>>, payload |-> <<>>]
NoData == <<-1, -1>>

HalfChunkMs == DefaultChunkLengthMs \div 2
VideoLengths == {d * HalfChunkMs : d \in 0..MaxHalfChunks}

Min(a, b) == IF a <= b THEN a ELSE b

(***************************************************************************)
(* split_audio                                                             *)
(***************************************************************************)
\* The slice taken up to i + L whatever the length of the buffer.
SliceUnclipped(len, i, L) == <<i, i + L>>

\* audio[i:i + chunk_length_ms]: pydub clips the slice to the buffer.
Slice(len, i, L) == <<i, Min(i + L, len)>>

\* One element of the list with the end time taken as the chunk length alone.
ChunkTupleEndIsLength(len, i, L) ==
    [chunk |-> Slice(len, i, L), start |-> i, end |-> L]

\* One element of the list: (chunk, i / 1000.0, (i + chunk_length_ms) / 1000.0)
ChunkTuple(len, i, L) == [chunk |-> Slice(len, i, L), start |-> i, end |-> i + L]

RECURSIVE SplitFromWholeOnly(_, _, _)
\* The loop stopping before a trailing chunk shorter than L.
SplitFromWholeOnly(len, i, L) ==
    IF i + L <= len
    THEN <<ChunkTuple(len, i, L)>> \o SplitFromWholeOnly(len, i + L, L)
    ELSE <<>>

RECURSIVE SplitFromInclusive(_, _, _)
\* The loop running up to and including the length: range(i, len + 1, L).
SplitFromInclusive(len, i, L) ==
    IF i <= len
    THEN <<ChunkTuple(len, i, L)>> \o SplitFromInclusive(len, i + L, L)
    ELSE <<>>

RECURSIVE SplitFrom(_, _, _)
\* for i in range(i, len, L): chunks.append(...)
SplitFrom(len, i, L) ==
    IF i < len THEN <<ChunkTuple(len, i, L)>> \o SplitFrom(len, i + L, L)
               ELSE <<>>

split_audio(len, L) == SplitFrom(len, 0, L)

(***************************************************************************)
(* Lines of the transcript                                                 *)
(***************************************************************************)
\* "{x:.2f}" of x = ms / 1000.0: the number of hundredths, rounded.
Fmt2(ms) == (ms * 100 + MsPerSecond \div 2) \div MsPerSecond

\* f"{start_time:.2f}s - {end_time:.2f}s: "
TsHead(start, end) == <<"ts", Fmt2(start), Fmt2(end)>>

\* f"Chunk {chunk_index} generated an exception: "
ExcHead(i) == <<"Chunk", i>>

\* What recognize_google makes of the audio it is given.
TextOf(data) == <<"text", data[1], data[2]>>

\* The return statements with the request-error clause losing its prefix.
ChunkLineBareError(start, end, answer, data) ==
    [head |-> IF answer = "request_error" THEN <<>> ELSE TsHead(start, end),
     payload |-> CASE answer = "text" -> TextOf(data)
                   [] answer = "unknown_value" -> <<"[unintelligible]">>
                   [] answer = "request_error" -> <<"[error]">>]

\* The return statements of transcribe_chunk.
ChunkLine(start, end, answer, data) ==
    [head |-> TsHead(start, end),
     payload |-> CASE answer = "text" -> TextOf(data)
                   [] answer = "unknown_value" -> <<"[unintelligible]">>
                   [] answer = "request_error" -> <<"[error]">>]

\* f"Chunk {chunk_index} generated an exception: {exc}"
ExcLine(i, exc) == [head |-> ExcHead(i), payload |-> <<"exc", exc>>]

Returned(line) == [kind |-> "returned", line |-> line, exc |-> "none"]
Raised(exc) == [kind |-> "raised", line |-> NoLine, exc |-> exc]
NoResult == [kind |-> "none", line |-> NoLine, exc |-> "none"]

(***************************************************************************)
(* State                                                                   *)
(***************************************************************************)
N == Len(chunks)
Indexes == 0 .. (N - 1)
Futures == DOMAIN wstate
\* A pool whose threads are never handed a second work item.
RunningNeverReleased == {i \in Futures : wstate[i] # "pending"}

\* enumerate(chunks): element i of the list.
ChunkAt(i) == chunks[i + 1]
Running == {i \in Futures : wstate[i] \in {"started", "exported", "recorded"}}

Init ==
    /\ phase = "Decoding"
    /\ video_ms \in VideoLengths
    /\ chunk_length_ms = DefaultChunkLengthMs
    /\ audio = NoAudio
    /\ chunks = <<>>
    /\ coord = "idle"
    /\ wstate = <<>>
    /\ audio_data = <<>>
    /\ heard = <<>>
    /\ result = <<>>
    /\ files = <<>>
    /\ collected = {}
    /\ transcript = <<>>
    /\ out_file = NoFile

(***************************************************************************)
(* video_to_transcript, lines 121-128                                      *)
(***************************************************************************)
\* extract_audio_from_video succeeds: the WAV file holds the audio track.
ExtractAudio ==
    /\ phase = "Decoding"
    /\ audio' = video_ms
    /\ phase' = "Chunking"
    /\ UNCHANGED <<video_ms, chunk_length_ms, chunks, coord, workerVars,
                   collected, transcript, out_file>>

\* The decoder's exception swallowed: the job goes on without an audio file.
ExtractAudioFailsGoesOn ==
    /\ phase = "Decoding"
    /\ phase' = "Chunking"
    /\ UNCHANGED <<video_ms, chunk_length_ms, audio, chunks, coord, workerVars,
                   collected, transcript, out_file>>

\* VideoFileClip or write_audiofile raises: the exception leaves the program.
ExtractAudioFails ==
    /\ phase = "Decoding"
    /\ phase' = "Aborted"
    /\ UNCHANGED <<video_ms, chunk_length_ms, audio, chunks, coord, workerVars,
                   collected, transcript, out_file>>

\* Line 31: AudioSegment.from_wav raises; no audio buffer, the program ends.
LoadAudioFails ==
    /\ phase = "Chunking"
    /\ phase' = "Aborted"
    /\ UNCHANGED <<video_ms, chunk_length_ms, audio, chunks, coord, workerVars,
                   collected, transcript, out_file>>

SplitAudio ==
    /\ phase = "Chunking"
    /\ chunks' = split_audio(audio, chunk_length_ms)
    /\ phase' = "Transcribing"
    /\ UNCHANGED <<video_ms, chunk_length_ms, audio, coord, workerVars,
                   collected, transcript, out_file>>

(***************************************************************************)
(* audio_chunks_to_text: the coordinator                                   *)
(***************************************************************************)
\* Lines 83-87: transcript = [], one submit per element of enumerate(chunks).
SubmitAll ==
    /\ phase = "Transcribing"
    /\ coord = "idle"
    /\ wstate' = [i \in Indexes |-> "pending"]
    /\ audio_data' = [i \in Indexes |-> NoData]
    /\ heard' = [i \in Indexes |-> "none"]
    /\ result' = [i \in Indexes |-> NoResult]
    /\ coord' = "collecting"
    /\ UNCHANGED <<phase, video_ms, chunk_length_ms, audio, chunks, files,
                   collected, transcript, out_file>>

\* The line the loop body appends for future i (lines 91-96).
CollectedLine(i) ==
    IF result[i].kind = "returned" THEN result[i].line
                                   ELSE ExcLine(i, result[i].exc)

\* The loop body without its try: the exception of a future leaves the loop.
CollectPropagates(i) ==
    /\ coord = "collecting"
    /\ i \in Futures
    /\ wstate[i] = "done"
    /\ i \notin collected
    /\ collected' = collected \cup {i}
    /\ IF result[i].kind = "returned"
       THEN /\ transcript' = Append(transcript, CollectedLine(i))
            /\ UNCHANGED <<phase, coord>>
       ELSE /\ transcript' = transcript
            /\ coord' = "raised"
            /\ phase' = "Aborted"
    /\ UNCHANGED <<video_ms, chunk_length_ms, audio, chunks, workerVars,
                   out_file>>

\* The loop body with the except clause swallowing the exception.
CollectSkipsRaised(i) ==
    /\ coord = "collecting"
    /\ i \in Futures
    /\ wstate[i] = "done"
    /\ i \notin collected
    /\ transcript' = IF result[i].kind = "returned"
                     THEN Append(transcript, CollectedLine(i))
                     ELSE transcript
    /\ collected' = collected \cup {i}
    /\ UNCHANGED <<phase, video_ms, chunk_length_ms, audio, chunks, coord,
                   workerVars, out_file>>

\* The loop yielding a finished future whether or not it was yielded before.
CollectAgain(i) ==
    /\ coord = "collecting"
    /\ i \in Futures
    /\ wstate[i] = "done"
    /\ transcript' = Append(transcript, CollectedLine(i))
    /\ collected' = collected \cup {i}
    /\ UNCHANGED <<phase, video_ms, chunk_length_ms, audio, chunks, coord,
                   workerVars, out_file>>

\* One iteration of the as_completed loop: a finished future not yet yielded.
Collect(i) ==
    /\ coord = "collecting"
    /\ i \in Futures
    /\ wstate[i] = "done"
    /\ i \notin collected
    /\ transcript' = Append(transcript, CollectedLine(i))
    /\ collected' = collected \cup {i}
    /\ UNCHANGED <<phase, video_ms, chunk_length_ms, audio, chunks, coord,
                   workerVars, out_file>>

\* Returning as soon as the first future has been collected.
ReturnAfterFirst ==
    /\ coord = "collecting"
    /\ (collected # {} \/ Futures = {})
    /\ coord' = "returned"
    /\ phase' = "Assembling"
    /\ UNCHANGED <<video_ms, chunk_length_ms, audio, chunks, workerVars,
                   collected, transcript, out_file>>

\* as_completed is exhausted, the with block shuts the pool down, line 98.
ReturnTranscript ==
    /\ coord = "collecting"
    /\ collected = Futures
    /\ coord' = "returned"
    /\ phase' = "Assembling"
    /\ UNCHANGED <<video_ms, chunk_length_ms, audio, chunks, workerVars,
                   collected, transcript, out_file>>

(***************************************************************************)
(* transcribe_chunk: one pool thread per running future                    *)
(***************************************************************************)
\* One file name for every chunk.
ChunkPathShared(i) == <<"chunk_", 0, ".wav">>

\* Line 52: chunk_path = f"chunk_{chunk_index}.wav"
ChunkPath(i) == <<"chunk_", i, ".wav">>

\* One thread per work item, whatever the number already running.
StartUnbounded(i) ==
    /\ i \in Futures
    /\ wstate[i] = "pending"
    /\ \A j \in Futures : j < i => wstate[j] # "pending"
    /\ wstate' = [wstate EXCEPT ![i] = "started"]
    /\ UNCHANGED <<phase, video_ms, chunk_length_ms, audio, chunks, coord,
                   audio_data, heard, result, files, collected, transcript,
                   out_file>>

\* A pool thread takes the oldest queued work item, if a thread is free.
Start(i) ==
    /\ i \in Futures
    /\ wstate[i] = "pending"
    /\ \A j \in Futures : j < i => wstate[j] # "pending"
    /\ Cardinality(Running) < PoolSize
    /\ wstate' = [wstate EXCEPT ![i] = "started"]
    /\ UNCHANGED <<phase, video_ms, chunk_length_ms, audio, chunks, coord,
                   audio_data, heard, result, files, collected, transcript,
                   out_file>>

\* Line 55: chunk.export(chunk_path, format="wav") writes chunk_<i>.wav.
Export(i) ==
    /\ i \in Futures
    /\ wstate[i] = "started"
    /\ files' = (ChunkPath(i) :> ChunkAt(i).chunk) @@ files
    /\ wstate' = [wstate EXCEPT ![i] = "exported"]
    /\ UNCHANGED <<phase, video_ms, chunk_length_ms, audio, chunks, coord,
                   audio_data, heard, result, collected, transcript, out_file>>

\* Line 55 raises; the file may already have been created (left: TRUE).
ExportFails(i) ==
    /\ i \in Futures
    /\ wstate[i] = "started"
    /\ \E left \in BOOLEAN :
          files' = IF left THEN (ChunkPath(i) :> NoData) @@ files ELSE files
    /\ wstate' = [wstate EXCEPT ![i] = "done"]
    /\ result' = [result EXCEPT ![i] = Raised("export")]
    /\ UNCHANGED <<phase, video_ms, chunk_length_ms, audio, chunks, coord,
                   audio_data, heard, collected, transcript, out_file>>

\* Lines 57-58: audio_data = recognizer.record(source) of chunk_<i>.wav.
Record(i) ==
    /\ i \in Futures
    /\ wstate[i] = "exported"
    /\ ChunkPath(i) \in DOMAIN files
    /\ audio_data' = [audio_data EXCEPT ![i] = files[ChunkPath(i)]]
    /\ wstate' = [wstate EXCEPT ![i] = "recorded"]
    /\ UNCHANGED <<phase, video_ms, chunk_length_ms, audio, chunks, coord,
                   heard, result, files, collected, transcript, out_file>>

\* A failing worker taking the queued work items down with it.
RecordFailsCancelsPending(i) ==
    /\ i \in Futures
    /\ wstate[i] = "exported"
    /\ wstate' = [j \in Futures |->
                    IF j = i \/ wstate[j] = "pending" THEN "done" ELSE wstate[j]]
    /\ result' = [j \in Futures |->
                    IF j = i THEN Raised("read")
                    ELSE IF wstate[j] = "pending" THEN Raised("cancelled")
                    ELSE result[j]]
    /\ UNCHANGED <<phase, video_ms, chunk_length_ms, audio, chunks, coord,
                   audio_data, heard, files, collected, transcript, out_file>>

\* Lines 57-58 raise: the try block is never entered, nothing is removed.
RecordFails(i) ==
    /\ i \in Futures
    /\ wstate[i] = "exported"
    /\ wstate' = [wstate EXCEPT ![i] = "done"]
    /\ result' = [result EXCEPT ![i] = Raised("read")]
    /\ UNCHANGED <<phase, video_ms, chunk_length_ms, audio, chunks, coord,
                   audio_data, heard, files, collected, transcript, out_file>>

Answers == {"text", "unknown_value", "request_error", "other"}

\* The try statement without its except sr.RequestError clause.
TryOutcomeNoRequestClause(i, answer) ==
    IF answer \in {"other", "request_error"}
    THEN Raised("recognize")
    ELSE Returned(ChunkLine(ChunkAt(i).start, ChunkAt(i).end, answer,
                            audio_data[i]))

\* What the try statement of lines 60-69 leaves pending before finally runs.
TryOutcome(i, answer) ==
    IF answer = "other"
    THEN Raised("recognize")
    ELSE Returned(ChunkLine(ChunkAt(i).start, ChunkAt(i).end, answer,
                            audio_data[i]))

\* Lines 70-71 with os.remove succeeding.
Without(f, path) == [q \in DOMAIN f \ {path} |-> f[q]]

\* The worker appending its own line to the shared transcript list.
RecognizeAppends(i) ==
    /\ i \in Futures
    /\ wstate[i] = "recorded"
    /\ \E answer \in Answers :
          /\ heard' = [heard EXCEPT ![i] = answer]
          /\ files' = Without(files, ChunkPath(i))
          /\ result' = [result EXCEPT ![i] = TryOutcome(i, answer)]
          /\ transcript' =
                IF answer = "other" THEN transcript
                ELSE Append(transcript, TryOutcome(i, answer).line)
    /\ wstate' = [wstate EXCEPT ![i] = "done"]
    /\ UNCHANGED <<phase, video_ms, chunk_length_ms, audio, chunks, coord,
                   audio_data, collected, out_file>>

\* Lines 60-71: the recognition call, the return or except clause, finally.
Recognize(i) ==
    /\ i \in Futures
    /\ wstate[i] = "recorded"
    /\ \E answer \in Answers :
          /\ heard' = [heard EXCEPT ![i] = answer]
          /\ \E removed \in BOOLEAN :
                IF removed
                THEN /\ files' = Without(files, ChunkPath(i))
                     /\ result' = [result EXCEPT ![i] = TryOutcome(i, answer)]
                ELSE \* os.remove raises: its exception replaces the outcome
                     /\ files' = files
                     /\ result' = [result EXCEPT ![i] = Raised("cleanup")]
    /\ wstate' = [wstate EXCEPT ![i] = "done"]
    /\ UNCHANGED <<phase, video_ms, chunk_length_ms, audio, chunks, coord,
                   audio_data, collected, transcript, out_file>>

(***************************************************************************)
(* save_transcript_with_timestamps                                         *)
(***************************************************************************)
\* Lines 108-110: every line of the list, in list order, plus '\n'.
SaveTranscript ==
    /\ phase = "Assembling"
    /\ out_file' = transcript
    /\ phase' = "Done"
    /\ UNCHANGED <<video_ms, chunk_length_ms, audio, chunks, coord, workerVars,
                   collected, transcript>>

\* A failed write sending the job back to split the audio again.
SaveTranscriptFailsRetries ==
    /\ phase = "Assembling"
    /\ out_file' = out_file
    /\ phase' = "Chunking"
    /\ UNCHANGED <<video_ms, chunk_length_ms, audio, chunks, coord, workerVars,
                   collected, transcript>>

\* open() raises (no file), or a write raises after k lines were written.
SaveTranscriptFails ==
    /\ phase = "Assembling"
    /\ \/ out_file' = out_file
       \/ \E k \in 0 .. (Len(transcript) - 1) :
             out_file' = SubSeq(transcript, 1, k)
    /\ phase' = "Aborted"
    /\ UNCHANGED <<video_ms, chunk_length_ms, audio, chunks, coord, workerVars,
                   collected, transcript>>

Next ==
    \/ ExtractAudio
    \/ ExtractAudioFails
    \/ LoadAudioFails
    \/ SplitAudio
    \/ SubmitAll
    \/ \E i \in Futures : Start(i)
    \/ \E i \in Futures : Export(i)
    \/ \E i \in Futures : ExportFails(i)
    \/ \E i \in Futures : Record(i)
    \/ \E i \in Futures : RecordFails(i)
    \/ \E i \in Futures : Recognize(i)
    \/ \E i \in Futures : Collect(i)
    \/ ReturnTranscript
    \/ SaveTranscript
    \/ SaveTranscriptFails

Spec == Init /\ [][Next]_vars

(***************************************************************************)
(* The pipeline under fair scheduling: the main thread keeps running, and  *)
(* every pool thread that can take a step of its work item takes it (each  *)
(* blocking call of transcribe_chunk returns or raises).                   *)
(***************************************************************************)
LiveInit ==
    /\ Init
    /\ video_ms \in {d * HalfChunkMs : d \in 0 .. MaxLiveHalfChunks}

\* The steps of the main thread.
MainStep ==
    \/ ExtractAudio
    \/ ExtractAudioFails
    \/ LoadAudioFails
    \/ SplitAudio
    \/ SubmitAll
    \/ \E i \in Futures : Collect(i)
    \/ ReturnTranscript
    \/ SaveTranscript
    \/ SaveTranscriptFails

\* The steps of the pool thread that runs work item i.
WorkerStep(i) ==
    \/ Start(i)
    \/ Export(i)
    \/ ExportFails(i)
    \/ Record(i)
    \/ RecordFails(i)
    \/ Recognize(i)

\* The largest chunk index of the durations tried.
LiveMaxIndex == MaxLiveHalfChunks \div 2

LiveSpec ==
    /\ LiveInit
    /\ [][Next]_vars
    /\ WF_vars(MainStep)
    /\ \A i \in 0 .. LiveMaxIndex : WF_vars(WorkerStep(i))

(***************************************************************************)
(* split_audio on its own: every length and chunk length of a small range. *)
(***************************************************************************)
SplitInit ==
    /\ phase = "Chunking"
    /\ video_ms \in 0 .. MaxSplitLen
    /\ audio = video_ms
    /\ chunk_length_ms \in 1 .. MaxSplitChunk
    /\ chunks = <<>>
    /\ coord = "idle"
    /\ wstate = <<>>
    /\ audio_data = <<>>
    /\ heard = <<>>
    /\ result = <<>>
    /\ files = <<>>
    /\ collected = {}
    /\ transcript = <<>>
    /\ out_file = NoFile

SplitNext == SplitAudio

SplitSpec == SplitInit /\ [][SplitNext]_vars

(***************************************************************************)
(* Properties                                                              *)
(***************************************************************************)
\* The prefix transcribe_chunk gives the lines of segment i.
OwnHead(i) == <<"ts", Fmt2(ChunkAt(i).start), Fmt2(ChunkAt(i).end)>>

\* line is a line of segment i: it carries i's time prefix or i's chunk number.
LineIsFor(line, i) == line.head = OwnHead(i) \/ line.head = <<"Chunk", i>>

LinesFor(seq, i) == {k \in 1 .. Len(seq) : LineIsFor(seq[k], i)}

InTranscript(line) == \E k \in 1 .. Len(transcript) : transcript[k] = line

Failed(i) == result[i].kind = "raised" \/ heard[i] = "request_error"

\* C1: once the output file is written, its k-th line is the line of segment
\* k (counting from 0), whatever the order in which the workers completed.
C1_OutputOrderedByIndex ==
    phase = "Done" =>
        \A k \in 1 .. Len(out_file) : LineIsFor(out_file[k], k - 1)

\* C2: the transcript audio_chunks_to_text returns has exactly N lines, and
\* exactly one of them belongs to each segment index 0..N-1.
C2_OneLinePerSegment ==
    coord = "returned" =>
        /\ Len(transcript) = N
        /\ \A i \in Indexes : Cardinality(LinesFor(transcript, i)) = 1

C2_Witness ==
    /\ coord = "returned"
    /\ N = 3
    /\ \E i, j, k \in Indexes :
          /\ heard[i] = "text" /\ result[i].kind = "returned"
          /\ heard[j] = "request_error"
          /\ result[k].kind = "raised"

\* The line a segment is due when its own worker met no fault: computed from
\* the segment itself and the service's answer for it.
DueLine(j) ==
    [head |-> OwnHead(j),
     payload |-> IF heard[j] = "text"
                 THEN <<"text", ChunkAt(j).chunk[1], ChunkAt(j).chunk[2]>>
                 ELSE <<"[unintelligible]">>]

C3_OthersComplete ==
    (coord = "returned" /\ \E i \in Indexes : Failed(i)) =>
        \A j \in Indexes :
            /\ j \in Futures /\ wstate[j] = "done"
            /\ result[j].exc \in {"none", "export", "read", "recognize",
                                  "cleanup"}
            /\ ~Failed(j) => /\ InTranscript(DueLine(j))
                             /\ LinesFor(transcript, j) =
                                    {k \in 1 .. Len(transcript) :
                                        transcript[k] = DueLine(j)}
            /\ Failed(j) =>
                  \A k \in LinesFor(transcript, j) :
                      \/ transcript[k].payload = <<"[error]">>
                      \/ transcript[k].payload = <<"exc", result[j].exc>>

C3_FailureTouchesOnlyItself ==
    \A i \in Futures :
        (wstate[i] # "done" /\ wstate'[i] = "done" /\ Failed(i)') =>
            \A j \in Futures \ {i} :
                /\ wstate'[j] = wstate[j]
                /\ result'[j] = result[j]
                /\ heard'[j] = heard[j]
                /\ audio_data'[j] = audio_data[j]
                /\ (ChunkPath(j) \in DOMAIN files') =
                      (ChunkPath(j) \in DOMAIN files)
                /\ ChunkPath(j) \in DOMAIN files =>
                      files'[ChunkPath(j)] = files[ChunkPath(j)]

\* C3: a worker that fails changes nothing of any other worker, and when
\* audio_chunks_to_text returns after some worker failed, every worker has run
\* to completion and every worker that did not fail has exactly its own
\* correct line in the transcript.
C3_Isolation == [](C3_OthersComplete) /\ [][C3_FailureTouchesOnlyItself]_vars

C3_Witness ==
    /\ coord = "returned"
    /\ N = 3
    /\ result[0].exc = "read"
    /\ heard[1] = "text" /\ ~Failed(1)
    /\ heard[2] = "unknown_value" /\ ~Failed(2)

\* C4: when an invocation of transcribe_chunk has ended by returning a line or
\* by a fault in export, in reading the file back or in the recognition call,
\* its file chunk_<index>.wav does not exist.
C4_TempFileRemoved ==
    \A i \in Futures :
        (wstate[i] = "done" /\ result[i].exc # "cleanup") =>
            ChunkPath(i) \notin DOMAIN files

\* C5: the transcript is returned, and the output file written, only when
\* every one of the N workers has completed and its result was collected.
C5_NoPartialResults ==
    (coord = "returned" \/ phase \in {"Assembling", "Done"}
        \/ out_file # NoFile) =>
        /\ Futures = Indexes
        /\ \A i \in Indexes : wstate[i] = "done" /\ i \in collected
        /\ Len(transcript) = N

C5_Witness ==
    /\ phase = "Done"
    /\ N = 3
    /\ Len(out_file) = 3

\* C6: the number of transcribe_chunk invocations executing at the same time
\* never exceeds the pool's limit.
C6_BoundedConcurrency == Cardinality(Running) <= PoolSize

C6_Witness ==
    /\ Cardinality(Running) = PoolSize
    /\ N > PoolSize
    /\ \E i \in Futures : wstate[i] = "pending"

\* C7 as stated: every invocation of transcribe_chunk ends by returning a
\* line, never by raising.
C7_NeverRaises ==
    \A i \in Futures : wstate[i] = "done" => result[i].kind = "returned"

\* C7 amended: an invocation returns a line exactly when the recognizer
\* answered with text, unintelligible or a request error and os.remove
\* succeeded; otherwise it raises, and the coordinator records the exception
\* as the line of that segment.
C7_RaisesOnlyUnexpected ==
    \A i \in Futures :
        wstate[i] = "done" =>
            /\ result[i].kind \in {"returned", "raised"}
            /\ result[i].kind = "returned" <=>
                  (/\ heard[i] \in {"text", "unknown_value", "request_error"}
                   /\ ChunkPath(i) \notin DOMAIN files)
            /\ (result[i].kind = "raised" /\ i \in collected) =>
                  InTranscript([head |-> <<"Chunk", i>>,
                                payload |-> <<"exc", result[i].exc>>])

C7_Witness ==
    \E i, j, k \in Futures :
        /\ i \in collected /\ result[i].exc = "cleanup"
        /\ j \in collected /\ result[j].exc = "export"
        /\ k \in collected /\ heard[k] = "request_error"
        /\ result[k].kind = "returned"

C9_EndClipped ==
    phase = "Transcribing" =>
        \A k \in 1 .. N :
            /\ chunks[k].start = (k - 1) * chunk_length_ms
            /\ chunks[k].end = Min(k * chunk_length_ms, audio)

\* C9 amended: segment i is reported to start at i*L and to end at (i+1)*L;
\* the end time is not clipped to D, only the audio slice is.
C9_EndNotClipped ==
    phase = "Transcribing" =>
        \A k \in 1 .. N :
            /\ chunks[k].start = (k - 1) * chunk_length_ms
            /\ chunks[k].end = k * chunk_length_ms
            /\ chunks[k].chunk[1] = (k - 1) * chunk_length_ms
            /\ chunks[k].chunk[2] = Min(k * chunk_length_ms, audio)

C9_Witness ==
    /\ phase = "Transcribing"
    /\ audio = 7
    /\ chunk_length_ms = 3
    /\ N = 3
    /\ chunks[3].end = 9
    /\ chunks[3].chunk = <<6, 7>>

\* C10: split_audio returns ceil(D / L) segments, the least n with n*L >= D,
\* in increasing index order.
C10_CeilSegments ==
    phase = "Transcribing" =>
        /\ N * chunk_length_ms >= audio
        /\ N > 0 => (N - 1) * chunk_length_ms < audio
        /\ \A k \in 1 .. N : chunks[k].start = (k - 1) * chunk_length_ms

C10_Witness ==
    /\ phase = "Transcribing"
    /\ audio = 7
    /\ chunk_length_ms = 3
    /\ N = 3

\* C11: the job aborts only where decoding (before any segment exists) or
\* writing the output file (after every result was collected) fails; no
\* outcome of a worker aborts it, and a finished job's output file holds
\* exactly one line for every segment.
C11_OnlyDecodeOrWriteAborts ==
    /\ coord \in {"idle", "collecting", "returned"}
    /\ phase = "Aborted" =>
          \/ coord = "idle" /\ chunks = <<>> /\ Futures = {}
          \/ /\ coord = "returned"
             /\ \A i \in Indexes : wstate[i] = "done" /\ i \in collected
    /\ phase = "Done" =>
          /\ Len(out_file) = N
          /\ \A i \in Indexes : Cardinality(LinesFor(out_file, i)) = 1

C11_Witness ==
    /\ phase = "Done"
    /\ N = 3
    /\ \E i, j, k \in Indexes :
          /\ heard[i] = "unknown_value" /\ result[i].kind = "returned"
          /\ heard[j] = "request_error" /\ result[j].kind = "returned"
          /\ result[k].kind = "raised"
    /\ \A i \in Indexes : Cardinality(LinesFor(out_file, i)) = 1

PhaseOrder == <<"Decoding", "Chunking", "Transcribing", "Assembling", "Done">>

PhaseRank(p) == CHOOSE k \in 1 .. 5 : PhaseOrder[k] = p

C12_PhaseStep ==
    phase' # phase =>
        /\ phase \in {"Decoding", "Chunking", "Transcribing", "Assembling"}
        /\ \/ phase' = PhaseOrder[PhaseRank(phase) + 1]
           \/ phase' = "Aborted"

C12_PhaseAfterPrevious ==
    /\ phase \in {"Decoding", "Chunking", "Transcribing", "Assembling", "Done",
                  "Aborted"}
    /\ phase = "Decoding" => audio = NoAudio /\ chunks = <<>>
    /\ phase \in {"Decoding", "Chunking"} => coord = "idle" /\ Futures = {}
    /\ phase \in {"Chunking", "Transcribing", "Assembling", "Done"} =>
          audio = video_ms
    /\ phase \in {"Transcribing", "Assembling", "Done"} =>
          chunks = split_audio(audio, chunk_length_ms)
    /\ phase \in {"Decoding", "Chunking", "Transcribing"} =>
          coord # "returned" /\ out_file = NoFile
    /\ phase \in {"Assembling", "Done"} => coord = "returned"
    /\ phase = "Assembling" => out_file = NoFile
    /\ phase = "Done" => out_file = transcript

\* C12: the phase only ever moves from one phase to the next one of Decoding,
\* Chunking, Transcribing, Assembling, Done (or to the abort), so no phase is
\* entered twice or re-entered, and each phase is entered with the work of
\* the previous one finished.
C12_StrictPhaseOrder == [](C12_PhaseAfterPrevious) /\ [][C12_PhaseStep]_vars

C12_Witness ==
    /\ phase = "Done"
    /\ N = 2
    /\ out_file = transcript

\* C13: the chunk paths of the job's futures are pairwise different, every
\* index is submitted once, and while a worker is between export and cleanup
\* the file at its path exists and holds its own chunk (no other worker has
\* overwritten or removed it), which is also what it read back.
C13_PrivateTempFile ==
    /\ coord # "idle" => Futures = Indexes
    /\ \A i, j \in Futures : i # j => ChunkPath(i) # ChunkPath(j)
    /\ \A i \in Futures :
          /\ wstate[i] \in {"exported", "recorded"} =>
                /\ ChunkPath(i) \in DOMAIN files
                /\ files[ChunkPath(i)] = ChunkAt(i).chunk
          /\ wstate[i] = "recorded" => audio_data[i] = ChunkAt(i).chunk
          /\ wstate[i] \in {"pending", "started"} =>
                ChunkPath(i) \notin DOMAIN files
    /\ \A path \in DOMAIN files :
          \E i \in Futures :
              /\ path = ChunkPath(i)
              /\ wstate[i] \in {"exported", "recorded", "done"}

C13_Witness ==
    \E i, j \in Futures :
        /\ i # j
        /\ wstate[i] = "recorded" /\ wstate[j] = "exported"
        /\ files[ChunkPath(i)] = ChunkAt(i).chunk
        /\ files[ChunkPath(j)] = ChunkAt(j).chunk
        /\ \E k \in Futures : wstate[k] = "done" /\ result[k].kind = "returned"

\* C14: when extract_audio_from_video has failed (the job left Decoding
\* without an audio file), the job is aborted and stays so with no segment,
\* no worker, no temporary chunk file and no output file.
C14_DecodeFailureAbortsBeforeChunking ==
    (phase # "Decoding" /\ audio = NoAudio) =>
        /\ phase = "Aborted"
        /\ chunks = <<>>
        /\ coord = "idle"
        /\ Futures = {}
        /\ files = <<>>
        /\ transcript = <<>>
        /\ out_file = NoFile

C14_Witness ==
    /\ phase = "Aborted"
    /\ audio = NoAudio
    /\ video_ms = 5 * HalfChunkMs

\* C15: with an audio of duration 0 there is no segment, no worker is ever
\* started, no chunk file is created, the transcript stays empty, the job is
\* not aborted by the transcription, and the output file a finished job
\* wrote is the empty file.
C15_ZeroDuration ==
    audio = 0 =>
        /\ phase # "Chunking" => N = 0
        /\ Futures = {}
        /\ files = <<>>
        /\ transcript = <<>>
        /\ phase = "Aborted" => (coord = "idle" \/ coord = "returned")
        /\ phase = "Done" => out_file = <<>>
        /\ phase # "Done" => out_file = NoFile

C15_Witness ==
    /\ audio = 0
    /\ phase = "Done"
    /\ coord = "returned"
    /\ out_file = <<>>

SliceLen(k) == chunks[k].chunk[2] - chunks[k].chunk[1]

\* C16: for D > 0 the slices split_audio cuts start at 0, each starts where
\* the one before ends, the last ends at D, and slice i is non-empty with
\* length min(L, D - i*L).
C16_SlicesCoverAudio ==
    (phase = "Transcribing" /\ audio > 0) =>
        /\ N >= 1
        /\ chunks[1].chunk[1] = 0
        /\ chunks[N].chunk[2] = audio
        /\ \A k \in 1 .. (N - 1) : chunks[k].chunk[2] = chunks[k + 1].chunk[1]
        /\ \A k \in 1 .. N :
              /\ SliceLen(k) > 0
              /\ SliceLen(k) =
                    Min(chunk_length_ms, audio - (k - 1) * chunk_length_ms)

C16_Witness ==
    /\ phase = "Transcribing"
    /\ audio = 8
    /\ chunk_length_ms = 3
    /\ N = 3
    /\ SliceLen(3) = 2

\* The moves of one worker: Pending, then Running (started, exported,
\* recorded), then Completed.
WorkerMoves ==
    {<<"pending", "started">>, <<"started", "exported">>,
     <<"started", "done">>, <<"exported", "recorded">>,
     <<"exported", "done">>, <<"recorded", "done">>}

C17_Step ==
    /\ coord # "idle" =>
          /\ Futures' = Futures
          /\ \A i \in Futures :
                /\ wstate'[i] # wstate[i] =>
                      <<wstate[i], wstate'[i]>> \in WorkerMoves
                /\ wstate[i] = "done" => result'[i] = result[i]
                /\ i \in collected => i \in collected'
                /\ (i \notin collected /\ i \in collected') =>
                      /\ wstate[i] = "done"
                      /\ transcript' = Append(transcript, CollectedLine(i))
    /\ transcript' # transcript =>
          \E i \in Futures \ collected : collected' = collected \cup {i}
    /\ collected' # collected => Len(transcript') = Len(transcript) + 1

C17_Counts ==
    /\ coord = "idle" => Futures = {}
    /\ coord # "idle" => Futures = Indexes
    /\ collected \subseteq {i \in Futures : wstate[i] = "done"}
    /\ Len(transcript) = Cardinality(collected)

\* C17: the futures are exactly the segment indexes, submitted once; each
\* worker only moves Pending -> Running -> Completed, a completed worker
\* never moves again and keeps its result; and each result is appended to
\* the transcript once, when its future is collected.
C17_OneInvocationPerSegment == [](C17_Counts) /\ [][C17_Step]_vars

C17_Witness ==
    /\ coord = "returned"
    /\ N = 3
    /\ collected = Indexes
    /\ Len(transcript) = 3
    /\ \A i \in Indexes : wstate[i] = "done"

AllCollected ==
    /\ coord = "returned"
    /\ \A i \in Indexes : wstate[i] = "done" /\ i \in collected

\* C18 as stated: once the audio is decoded and split, the job eventually
\* reaches Done.
C18_EventuallyDone == (phase = "Transcribing") ~> (phase = "Done")

\* C18 amended: once the audio is decoded and split, every worker eventually
\* completes, all N results are eventually collected, and the job ends in
\* Done, or aborted by the write of the output file with all N collected.
C18_EventuallyCollectedAndEnded ==
    (phase = "Transcribing") ~>
        (AllCollected /\ phase \in {"Done", "Aborted"})

C18_Witness ==
    /\ phase = "Done"
    /\ N > PoolSize
    /\ AllCollected
    /\ \E i, j \in Indexes : Failed(i) /\ ~Failed(j)

C19_Step ==
    /\ (coord # "idle" /\ workerVars' # workerVars) =>
          /\ transcript' = transcript
          /\ collected' = collected
          /\ UNCHANGED <<coord, phase, out_file, chunks>>
    /\ transcript' # transcript =>
          /\ coord = "collecting"
          /\ UNCHANGED workerVars
          /\ Len(transcript') = Len(transcript) + 1
          /\ SubSeq(transcript', 1, Len(transcript)) = transcript

C19_NothingLost ==
    /\ \A i \in collected : InTranscript(CollectedLine(i))
    /\ Len(transcript) = Cardinality(collected)

\* C19: a step of a worker thread changes only worker state, never the
\* transcript list or the set of collected futures; the transcript changes
\* only by the coordinator appending one line, which keeps every line
\* already there, so every collected result stays in the transcript.
C19_SingleWriter == [](C19_NothingLost) /\ [][C19_Step]_vars

C19_Witness ==
    /\ coord = "collecting"
    /\ Len(transcript) = 2
    /\ \E i \in Futures : wstate[i] = "recorded"

====
